---- MODULE Spec2Model ----
(***************************************************************************)
(* Model of run_train_punc.py (DuyTa506/VN_Punc): the start-up checks of   *)
(* main(), the gradient-accumulated training loop with its per-batch       *)
(* checkpoint, the in-loop and final evaluation walks, and the output      *)
(* directory the runs share.  A job is one process (local_rank = -1) or    *)
(* NumRanks distributed worker processes that run the same main().         *)
(***************************************************************************)
EXTENDS Integers, Sequences, FiniteSets, TLC

(* ------------------------------ bounds --------------------------------- *)
NumRanks == 2
NumLabels == 2
MaxSeqLen == 4
MaxWords == 3
MaxExamples == 2
MaxBatches == 3
AccumBatches == 10
MaxEpochs == 2
MaxK == 3
MaxRestarts == 1
MaxPieces == 2
MaxTrainBatch == 3
MaxTrainExamples == 6

(* ------------------------ labels and the encoder ----------------------- *)
LabelNames == <<"O", "PERIOD", "COMMA", "COLON", "QMARK", "EXCLAM">>

\* processor.get_labels(): the label alphabet, in a stable order
label_list == SubSeq(LabelNames, 1, NumLabels)

\* num_labels = len(label_list) + 1
num_labels == Len(label_list) + 1

\* variant: the map enumerated from 0
label_map_FromZero == [i \in 0..(Len(label_list) - 1) |-> label_list[i + 1]]

\* label_map = {i: label for i, label in enumerate(label_list, 1)}
label_map == [i \in 1..Len(label_list) |-> label_list[i]]

\* label_list.index(name), 0-based as in Python
LabelIndex(name) == (CHOOSE i \in 1..Len(label_list) : label_list[i] = name) - 1

RECURSIVE SumPieces(_, _)
SumPieces(ex, n) == IF n = 0 THEN 0 ELSE SumPieces(ex, n - 1) + ex[n].pieces

\* variant: the truncation leaves room for one marker only
Retained_OneMarker(ex, msl) ==
    LET fits == {n \in 0..Len(ex) : SumPieces(ex, n) + 1 <= msl}
    IN  CHOOSE n \in fits : \A m \in fits : m <= n

\* words kept by the truncation: the longest prefix of whole words whose
\* pieces, with the start and the end marker, fit into max_seq_length
Retained(ex, msl) ==
    LET fits == {n \in 0..Len(ex) : SumPieces(ex, n) + 2 <= msl}
    IN  CHOOSE n \in fits : \A m \in fits : m <= n

\* the sentinel emitted right after the last retained word
Sentinel == Len(label_list) + 1

\* label_id of one encoded example: 0 at position 0, index+1 per retained
\* word, one sentinel, then 0 padding; element j+1 is Python's label_id[j]
EncodeLabelId(ex, msl) ==
    LET w == Retained(ex, msl)
    IN  [p \in 1..msl |->
            IF p = 1 THEN 0
            ELSE IF p <= w + 1 THEN LabelIndex(ex[p - 1].label) + 1
            ELSE IF p = w + 2 THEN Sentinel
            ELSE 0]

\* the word that owns the t-th piece of the flat token list
WordOf(ex, t) ==
    CHOOSE w \in 1..Len(ex) : SumPieces(ex, w - 1) < t /\ t <= SumPieces(ex, w)

\* the flat token list after truncation, each token named by its word
Tokens(ex, msl) ==
    [t \in 1..SumPieces(ex, Retained(ex, msl)) |-> WordOf(ex, t)]

\* variant: every piece of a retained word marked valid
EncodeValidIds_EveryPiece(ex, msl) ==
    [p \in 1..msl |->
        IF p >= 2 /\ p <= SumPieces(ex, Retained(ex, msl)) + 1 THEN 1 ELSE 0]

\* valid_ids of one encoded example: 1 at the input position of the first
\* piece of each retained word (flat index + 1 for the start marker), else 0;
\* element p is Python's valid_ids[p-1]
EncodeValidIds(ex, msl) ==
    [p \in 1..msl |->
        IF \E w \in 1..Retained(ex, msl) : p = SumPieces(ex, w - 1) + 2
        THEN 1 ELSE 0]

(* ------------------------------- state --------------------------------- *)
VARIABLES
    args,   \* the parsed command line, shared by every rank of the job
    data,   \* the inputs of the run: batches per epoch, eval examples, predictions
    fs,     \* the output directory: existence, files, checkpoint and saved model
    proc,   \* per rank: position in main() and its local variables
    hist    \* bookkeeping over runs: processed batches, checkpoint writers

vars == <<args, data, fs, proc, hist>>

Ranks == 0..(NumRanks - 1)

\* the processes of the job: one when local_rank = -1, every rank otherwise
Procs == IF args.distributed THEN Ranks ELSE {0}

local_rank(r) == IF args.distributed THEN r ELSE -1

\* line 167: train_batch_size // gradient_accumulation_steps, the batch size
\* of one forward pass (reached with gradient_accumulation_steps >= 1 only)
PerStepBatch ==
    IF args.gradient_accumulation_steps >= 1
    THEN args.train_batch_size \div args.gradient_accumulation_steps
    ELSE 0

CeilDiv(a, b) == (a + b - 1) \div b

\* torch.distributed.get_world_size(), 1 for the single process
WorldSize == IF args.distributed THEN NumRanks ELSE 1

\* lines 306-310: the examples the sampler gives one process per epoch
\* (RandomSampler: all; DistributedSampler: ceil(n / world size))
SamplerLen == CeilDiv(data.num_examples, WorldSize)

\* len(train_dataloader), line 310: batches of PerStepBatch examples, the
\* last one possibly smaller
NBatches == IF PerStepBatch >= 1 THEN CeilDiv(SamplerLen, PerStepBatch) ELSE 0

\* lines 237-240: int(len(train_examples) / train_batch_size /
\* gradient_accumulation_steps) * num_train_epochs, divided by the world size
\* in a distributed job
PlannedSteps ==
    LET total == (data.num_examples
                     \div (PerStepBatch * args.gradient_accumulation_steps))
                 * args.num_train_epochs
    IN  IF args.distributed THEN total \div WorldSize ELSE total

CKPT == "checkpoint.ckt"
ModelFiles == {"pytorch_model.bin", "tokenizer", "model_config.json"}

Terminal == {"done", "aborted", "crashed", "killed", "off"}

NoModel == [src |-> "none", updates |-> 0]

NoCkpt == [epoch |-> -1, model_state_dict |-> 0, optimizer_state_dict |-> 0,
           loss |-> 0, scheduler |-> 0]

InitProc ==
    [pc |-> "start", err |-> "none", arrived |-> FALSE, pretrained |-> FALSE,
     model |-> NoModel, optimizer |-> 0, scheduler |-> 0, grads |-> 0,
     training |-> TRUE, ckpt_read |-> FALSE,
     start_epoch |-> 0, epoch |-> 0, step |-> 0,
     global_step |-> 0, nb_tr_steps |-> 0, tr_loss |-> 0,
     n_opt |-> 0, n_sched |-> 0, n_zero |-> 0, n_batches |-> 0,
     n_ckpt |-> 0, n_eval |-> 0, step_grads |-> 0, fwd_eval |-> FALSE,
     done_log |-> <<>>, num_train_optimization_steps |-> 0, first_loss |-> -1,
     eval_ctx |-> "none", ei |-> 1, ej |-> 0,
     temp_1 |-> <<>>, temp_2 |-> <<>>, y_true |-> <<>>, y_pred |-> <<>>]

OffProc == [InitProc EXCEPT !.pc = "off"]

NoKill == [pc |-> "none", epoch |-> 0, step |-> 0]

InitHist ==
    [log |-> [r \in Ranks |-> <<>>], writers |-> {}, restarts |-> 0,
     created |-> {}, kill |-> NoKill, pre |-> {}, reporters |-> {},
     pre_loss |-> 0]

\* one word of an example: its label and the number of pieces the tokenizer
\* splits it into
Words(maxPieces) == [label : {label_list[i] : i \in 1..Len(label_list)},
                     pieces : 1..maxPieces]

SeqsUpTo(S, lo, hi) == UNION {[1..n -> S] : n \in lo..hi}

\* the start state of a run over the given argument, input and directory sets
InitWith(argSet, dataSet, fsSet) ==
    /\ args \in argSet
    /\ data \in dataSet
    /\ fs \in fsSet
    /\ proc = [r \in Ranks |-> IF r \in Procs THEN InitProc ELSE OffProc]
    /\ hist = [InitHist EXCEPT !.pre = fs.files, !.pre_loss = fs.ckpt.loss]

DirAbsent == [exists |-> FALSE, files |-> {}, ckpt |-> NoCkpt, saved_model |-> 0]
DirEmpty == [DirAbsent EXCEPT !.exists = TRUE]
DirForeign == [DirEmpty EXCEPT !.files = {"other.txt"}]

Set(r, f) == proc' = [proc EXCEPT ![r] = f]

(* ------------------------------ start-up ------------------------------- *)
\* variant: the output directory is not tested before training
Validate_NoDirCheck(r) ==
    /\ proc[r].pc = "start"
    /\ IF args.gradient_accumulation_steps < 1
       THEN /\ Set(r, [proc[r] EXCEPT !.pc = "aborted", !.err = "accum"])
            /\ UNCHANGED fs
       ELSE IF ~args.do_train /\ ~args.do_eval
       THEN /\ Set(r, [proc[r] EXCEPT !.pc = "aborted", !.err = "no_mode"])
            /\ UNCHANGED fs
       ELSE /\ fs' = [fs EXCEPT !.exists = TRUE]
            /\ IF ~args.task_known
               THEN Set(r, [proc[r] EXCEPT !.pc = "aborted", !.err = "task"])
               ELSE Set(r, [proc[r] EXCEPT !.pc = "load"])
    /\ UNCHANGED <<args, data, hist>>

\* lines 151-186: device set-up and the configuration checks, in order
Validate(r) ==
    /\ proc[r].pc = "start"
    /\ IF args.gradient_accumulation_steps < 1
       THEN /\ Set(r, [proc[r] EXCEPT !.pc = "aborted", !.err = "accum"])
            /\ UNCHANGED fs
       ELSE IF ~args.do_train /\ ~args.do_eval
       THEN /\ Set(r, [proc[r] EXCEPT !.pc = "aborted", !.err = "no_mode"])
            /\ UNCHANGED fs
       ELSE IF fs.exists /\ fs.files # {} /\ args.do_train
       THEN /\ Set(r, [proc[r] EXCEPT !.pc = "aborted", !.err = "dir_nonempty"])
            /\ UNCHANGED fs
       ELSE /\ fs' = [fs EXCEPT !.exists = TRUE]
            /\ IF ~args.task_known
               THEN Set(r, [proc[r] EXCEPT !.pc = "aborted", !.err = "task"])
               ELSE Set(r, [proc[r] EXCEPT !.pc = "load"])
    /\ UNCHANGED <<args, data, hist>>

\* lines 190-240: tokenizer, config and model from_pretrained, then with
\* do_train the train examples and the planned number of optimization steps,
\* whose division raises ZeroDivisionError on a batch size of 0; the rank then
\* stands at the barrier of lines 242-246
LoadPretrained(r) ==
    /\ proc[r].pc = "load"
    /\ LET p == [proc[r] EXCEPT !.pretrained = TRUE, !.training = FALSE,
                                !.model = [src |-> "pretrained", updates |-> 0]]
       IN  IF args.do_train /\ PerStepBatch = 0
           THEN Set(r, [p EXCEPT !.pc = "crashed", !.err = "ZeroDivisionError"])
           ELSE Set(r, [p EXCEPT !.pc = "barrier", !.arrived = TRUE,
                                 !.num_train_optimization_steps =
                                     IF args.do_train THEN PlannedSteps ELSE 0])
    /\ UNCHANGED <<args, data, fs, hist>>

\* torch.distributed.barrier(): every rank of the job has to arrive
BarrierOpen == args.distributed => \A q \in Procs : proc[q].arrived

\* variant: the loop resumed at the checkpoint's own epoch
Setup_SameEpoch(r) ==
    /\ proc[r].pc = "barrier"
    /\ BarrierOpen
    /\ LET p0 == [proc[r] EXCEPT !.global_step = 0, !.nb_tr_steps = 0,
                                 !.tr_loss = 0, !.start_epoch = 0,
                                 !.optimizer = 0, !.scheduler = 0]
           p1 == IF CKPT \in fs.files
                 THEN [p0 EXCEPT !.model = [src |-> "checkpoint",
                                            updates |-> fs.ckpt.model_state_dict],
                                 !.optimizer = fs.ckpt.optimizer_state_dict,
                                 !.start_epoch = fs.ckpt.epoch,
                                 !.tr_loss = fs.ckpt.loss,
                                 !.scheduler = fs.ckpt.scheduler,
                                 !.ckpt_read = TRUE]
                 ELSE p0
       IN  Set(r, [p1 EXCEPT !.pc = IF args.do_train THEN "epoch" ELSE "reload",
                             !.epoch = p1.start_epoch])
    /\ UNCHANGED <<args, data, fs, hist>>

\* variant: the checkpoint loaded only when training was requested
Setup_TrainOnly(r) ==
    /\ proc[r].pc = "barrier"
    /\ BarrierOpen
    /\ LET p0 == [proc[r] EXCEPT !.global_step = 0, !.nb_tr_steps = 0,
                                 !.tr_loss = 0, !.start_epoch = 0,
                                 !.optimizer = 0, !.scheduler = 0]
           p1 == IF CKPT \in fs.files /\ args.do_train
                 THEN [p0 EXCEPT !.model = [src |-> "checkpoint",
                                            updates |-> fs.ckpt.model_state_dict],
                                 !.optimizer = fs.ckpt.optimizer_state_dict,
                                 !.start_epoch = fs.ckpt.epoch + 1,
                                 !.tr_loss = fs.ckpt.loss,
                                 !.scheduler = fs.ckpt.scheduler,
                                 !.ckpt_read = TRUE]
                 ELSE p0
       IN  Set(r, [p1 EXCEPT !.pc = IF args.do_train THEN "epoch" ELSE "reload",
                             !.epoch = p1.start_epoch])
    /\ UNCHANGED <<args, data, fs, hist>>

\* lines 242-289: barrier, optimizer and scheduler, counters, checkpoint load
Setup(r) ==
    /\ proc[r].pc = "barrier"
    /\ BarrierOpen
    /\ LET p0 == [proc[r] EXCEPT !.global_step = 0, !.nb_tr_steps = 0,
                                 !.tr_loss = 0, !.start_epoch = 0,
                                 !.optimizer = 0, !.scheduler = 0]
           p1 == IF CKPT \in fs.files
                 THEN [p0 EXCEPT !.model = [src |-> "checkpoint",
                                            updates |-> fs.ckpt.model_state_dict],
                                 !.optimizer = fs.ckpt.optimizer_state_dict,
                                 !.start_epoch = fs.ckpt.epoch + 1,
                                 !.tr_loss = fs.ckpt.loss,
                                 !.scheduler = fs.ckpt.scheduler,
                                 !.ckpt_read = TRUE]
                 ELSE p0
       IN  Set(r, [p1 EXCEPT !.pc = IF args.do_train THEN "epoch" ELSE "reload",
                             !.epoch = p1.start_epoch])
    /\ UNCHANGED <<args, data, fs, hist>>

(* --------------------------- training loop ----------------------------- *)
\* lines 312-316: the head of one epoch
EpochStart(r) ==
    /\ proc[r].pc = "epoch"
    /\ proc[r].epoch < args.num_train_epochs
    /\ Set(r, [proc[r] EXCEPT !.pc = "batch", !.tr_loss = 0, !.training = TRUE,
                              !.nb_tr_steps = 0, !.step = 0])
    /\ UNCHANGED <<args, data, fs, hist>>

\* the gradient all-reduce of backward(): a rank finishes the backward pass of
\* its next batch only with every other rank in the same pass or past it
BackwardOpen(r) ==
    args.distributed =>
        \A q \in Procs \ {r} :
            \/ proc[q].n_batches > proc[r].n_batches
            \/ proc[q].n_batches = proc[r].n_batches /\ proc[q].pc = "batch"

\* variant: the boundary test taken on step instead of step + 1
AtBoundary_OnStep(step, k) == step % k = 0

\* line 337: the accumulation boundary
AtBoundary(step, k) == (step + 1) % k = 0

\* lines 317-341: forward, backward, clipping, and on a boundary the optimizer
\* step, the scheduler step, zero_grad and the global step
TrainBatch(r) ==
    /\ proc[r].pc = "batch"
    /\ proc[r].step < NBatches
    /\ BackwardOpen(r)
    /\ LET p0 == [proc[r] EXCEPT !.grads = @ + 1, !.tr_loss = @ + 1,
                                 !.nb_tr_steps = @ + 1, !.n_batches = @ + 1,
                                 !.fwd_eval = @ \/ ~proc[r].training,
                                 !.first_loss = IF proc[r].n_batches = 0
                                                THEN proc[r].tr_loss ELSE @,
                                 !.done_log = Append(@, <<proc[r].epoch, proc[r].step>>)]
           p1 == IF AtBoundary(proc[r].step, args.gradient_accumulation_steps)
                 THEN [p0 EXCEPT !.model = [@ EXCEPT !.updates = @ + 1],
                                 !.optimizer = @ + 1, !.n_opt = @ + 1,
                                 !.scheduler = @ + 1, !.n_sched = @ + 1,
                                 !.step_grads = p0.grads,
                                 !.grads = 0, !.n_zero = @ + 1,
                                 !.global_step = @ + 1]
                 ELSE p0
       IN  Set(r, [p1 EXCEPT !.pc = "ckpt"])
    /\ hist' = [hist EXCEPT !.log[r] = Append(@, <<proc[r].epoch, proc[r].step>>)]
    /\ UNCHANGED <<args, data, fs>>

\* variant: the in-loop evaluation on every rank
EvalEveryCond_AnyRank(r) == args.do_eval /\ args.eval_every_epoch

\* line 352: the in-loop evaluation runs on the single process or on rank 0
EvalEveryCond(r) ==
    args.do_eval /\ args.eval_every_epoch /\ (local_rank(r) = -1 \/ r = 0)

\* variant: the checkpoint written only on an accumulation boundary
SaveCheckpoint_OnBoundary(r) ==
    /\ proc[r].pc = "ckpt"
    /\ IF (proc[r].step + 1) % args.gradient_accumulation_steps = 0
       THEN /\ fs' = [fs EXCEPT !.files = @ \cup {CKPT},
                                !.ckpt = [epoch |-> proc[r].epoch,
                                          model_state_dict |-> proc[r].model.updates,
                                          optimizer_state_dict |-> proc[r].optimizer,
                                          loss |-> proc[r].tr_loss,
                                          scheduler |-> proc[r].scheduler]]
            /\ hist' = [hist EXCEPT !.writers = @ \cup {r}, !.created = @ \cup {CKPT}]
       ELSE UNCHANGED <<fs, hist>>
    /\ IF EvalEveryCond(r)
       THEN Set(r, [proc[r] EXCEPT !.pc = "eval_in"])
       ELSE Set(r, [proc[r] EXCEPT !.pc = "batch", !.step = @ + 1])
    /\ UNCHANGED <<args, data>>

\* lines 343-350: torch.save of the checkpoint, then the test of line 352
SaveCheckpoint(r) ==
    /\ proc[r].pc = "ckpt"
    /\ fs' = [fs EXCEPT !.files = @ \cup {CKPT},
                        !.ckpt = [epoch |-> proc[r].epoch,
                                  model_state_dict |-> proc[r].model.updates,
                                  optimizer_state_dict |-> proc[r].optimizer,
                                  loss |-> proc[r].tr_loss,
                                  scheduler |-> proc[r].scheduler]]
    /\ hist' = [hist EXCEPT !.writers = @ \cup {r}, !.created = @ \cup {CKPT}]
    /\ IF EvalEveryCond(r)
       THEN Set(r, [proc[r] EXCEPT !.pc = "eval_in", !.n_ckpt = @ + 1])
       ELSE Set(r, [proc[r] EXCEPT !.pc = "batch", !.step = @ + 1,
                                   !.n_ckpt = @ + 1])
    /\ UNCHANGED <<args, data>>

\* line 317 with the dataloader exhausted: on to the next epoch of line 312
EpochEnd(r) ==
    /\ proc[r].pc = "batch"
    /\ proc[r].step >= NBatches
    /\ Set(r, [proc[r] EXCEPT !.pc = "epoch", !.epoch = @ + 1])
    /\ UNCHANGED <<args, data, fs, hist>>

\* lines 421-429: save_pretrained of model and tokenizer, model_config.json
SaveModel(r) ==
    /\ proc[r].pc = "epoch"
    /\ proc[r].epoch >= args.num_train_epochs
    /\ fs' = [fs EXCEPT !.files = @ \cup ModelFiles,
                        !.saved_model = proc[r].model.updates]
    /\ hist' = [hist EXCEPT !.created = @ \cup ModelFiles]
    /\ Set(r, [proc[r] EXCEPT !.pc = "final"])
    /\ UNCHANGED <<args, data>>

\* lines 431-434: without do_train the model is reloaded from the output
\* directory; from_pretrained raises when no saved model is there
ReloadTrained(r) ==
    /\ proc[r].pc = "reload"
    /\ IF "pytorch_model.bin" \in fs.files
       THEN Set(r, [proc[r] EXCEPT !.pc = "final", !.training = FALSE,
                                   !.model = [src |-> "output_dir",
                                              updates |-> fs.saved_model]])
       ELSE Set(r, [proc[r] EXCEPT !.pc = "crashed", !.err = "no_saved_model"])
    /\ UNCHANGED <<args, data, fs, hist>>

(* ----------------------------- evaluation ------------------------------ *)
\* line 438: the final evaluation runs on the single process or on rank 0
FinalEvalCond(r) == args.do_eval /\ (local_rank(r) = -1 \/ r = 0)

\* convert_examples_to_features(eval_examples, ...): the label_id rows
Features ==
    [i \in 1..Len(data.eval_examples) |->
        EncodeLabelId(data.eval_examples[i], data.max_seq_length)]

\* lines 353-378 and 439-465: the split check, the features, model.eval()
\* and the empty result lists
EvalBegin(r) ==
    /\ \/ proc[r].pc = "eval_in"
       \/ proc[r].pc = "final" /\ FinalEvalCond(r)
    /\ IF args.eval_on \notin {"dev", "test"}
       THEN Set(r, [proc[r] EXCEPT !.pc = "aborted", !.err = "eval_on"])
       ELSE Set(r, [proc[r] EXCEPT !.pc = "walk", !.training = FALSE,
                        !.eval_ctx = IF proc[r].pc = "final" THEN "final" ELSE "loop",
                        !.n_eval = IF proc[r].pc = "eval_in" THEN @ + 1 ELSE @,
                        !.ei = 1, !.ej = 0,
                        !.temp_1 = <<>>, !.temp_2 = <<>>,
                        !.y_true = <<>>, !.y_pred = <<>>])
    /\ UNCHANGED <<args, data, fs, hist>>

\* label_map.get(pred, 'PAD')
DecodePred(pred) == IF pred \in DOMAIN label_map THEN label_map[pred] ELSE "PAD"

\* the position after j of example i: the next position of the row, or the
\* head of the next example (fresh temp lists, lines 487-488)
Advance(p, msl) ==
    IF p.ej + 1 < msl
    THEN [p EXCEPT !.ej = @ + 1]
    ELSE [p EXCEPT !.ei = @ + 1, !.ej = 0, !.temp_1 = <<>>, !.temp_2 = <<>>]

\* the label id at which the walk of lines 404 and 492 flushes and breaks
StopLabel == Len(label_map)

\* variant: the prediction at the stop position flushed along with temp_2
EvalPos_PredAtStop(r, pred) ==
    /\ proc[r].pc = "walk"
    /\ proc[r].ei <= Len(Features)
    /\ LET p == proc[r]
           lab == Features[p.ei][p.ej + 1]
           e1 == [ex |-> p.ei, pos |-> p.ej,
                  name |-> IF lab \in DOMAIN label_map THEN label_map[lab] ELSE "PAD"]
           e2 == [ex |-> p.ei, pos |-> p.ej, id |-> pred, name |-> DecodePred(pred)]
       IN  IF p.ej = 0
           THEN Set(r, Advance(p, data.max_seq_length))
           ELSE IF lab = StopLabel
           THEN Set(r, [p EXCEPT !.y_true = @ \o p.temp_1,
                                 !.y_pred = @ \o Append(p.temp_2, e2),
                                 !.ei = @ + 1, !.ej = 0,
                                 !.temp_1 = <<>>, !.temp_2 = <<>>])
           ELSE IF lab \notin DOMAIN label_map
           THEN Set(r, [p EXCEPT !.pc = "crashed", !.err = "KeyError"])
           ELSE Set(r, Advance([p EXCEPT !.temp_1 = Append(@, e1),
                                         !.temp_2 = Append(@, e2)],
                               data.max_seq_length))
    /\ UNCHANGED <<args, data, fs, hist>>

\* lines 398-410 and 486-498: one position j of the row of example i, with
\* pred the model's label id at that position
EvalPos(r, pred) ==
    /\ proc[r].pc = "walk"
    /\ proc[r].ei <= Len(Features)
    /\ LET p == proc[r]
           lab == Features[p.ei][p.ej + 1]
       IN  IF p.ej = 0
           THEN Set(r, Advance(p, data.max_seq_length))
           ELSE IF lab = StopLabel
           THEN Set(r, [p EXCEPT !.y_true = @ \o p.temp_1,
                                 !.y_pred = @ \o p.temp_2,
                                 !.ei = @ + 1, !.ej = 0,
                                 !.temp_1 = <<>>, !.temp_2 = <<>>])
           ELSE IF lab \notin DOMAIN label_map
           THEN Set(r, [p EXCEPT !.pc = "crashed", !.err = "KeyError"])
           ELSE Set(r, Advance(
                    [p EXCEPT !.temp_1 = Append(@, [ex |-> p.ei, pos |-> p.ej,
                                                    name |-> label_map[lab]]),
                              !.temp_2 = Append(@, [ex |-> p.ei, pos |-> p.ej,
                                                    id |-> pred,
                                                    name |-> DecodePred(pred)])],
                    data.max_seq_length))
    /\ UNCHANGED <<args, data, fs, hist>>

ReportFile(ctx) == IF ctx = "loop" THEN "eval_results.txt" ELSE "test_results.txt"

\* lines 412-419 and 500-507: the classification report and its file
EvalReport(r) ==
    /\ proc[r].pc = "walk"
    /\ proc[r].ei > Len(Features)
    /\ fs' = [fs EXCEPT !.files = @ \cup {ReportFile(proc[r].eval_ctx)}]
    /\ hist' = [hist EXCEPT !.created = @ \cup {ReportFile(proc[r].eval_ctx)},
                            !.reporters = @ \cup {r}]
    /\ IF proc[r].eval_ctx = "loop"
       THEN Set(r, [proc[r] EXCEPT !.pc = "batch", !.step = @ + 1])
       ELSE Set(r, [proc[r] EXCEPT !.pc = "done"])
    /\ UNCHANGED <<args, data>>

\* line 438 false: main() returns
Finish(r) ==
    /\ proc[r].pc = "final"
    /\ ~FinalEvalCond(r)
    /\ Set(r, [proc[r] EXCEPT !.pc = "done"])
    /\ UNCHANGED <<args, data, fs, hist>>

(* ------------------------- interruption, restart ----------------------- *)
\* the job is killed from outside: every process of it stops where it is
Kill ==
    /\ \E r \in Procs : proc[r].pc \notin Terminal
    /\ proc' = [r \in Ranks |->
                   IF proc[r].pc \in Terminal THEN proc[r]
                   ELSE [proc[r] EXCEPT !.pc = "killed"]]
    /\ hist' = [hist EXCEPT !.kill = [pc |-> proc[0].pc, epoch |-> proc[0].epoch,
                                      step |-> proc[0].step]]
    /\ UNCHANGED <<args, data, fs>>

\* the program is started again on the same output directory
Restart(do_train, do_eval) ==
    /\ \A r \in Procs : proc[r].pc \in Terminal
    /\ hist.restarts < MaxRestarts
    /\ args' = [args EXCEPT !.do_train = do_train, !.do_eval = do_eval]
    /\ proc' = [r \in Ranks |-> IF r \in Procs THEN InitProc ELSE OffProc]
    /\ hist' = [hist EXCEPT !.restarts = @ + 1, !.created = {}, !.pre = fs.files,
                            !.pre_loss = fs.ckpt.loss]
    /\ UNCHANGED <<data, fs>>

(* --------------------------- specifications ---------------------------- *)
Step(r) ==
    \/ Validate(r)
    \/ LoadPretrained(r)
    \/ Setup(r)
    \/ EpochStart(r)
    \/ TrainBatch(r)
    \/ SaveCheckpoint(r)
    \/ EpochEnd(r)
    \/ SaveModel(r)
    \/ ReloadTrained(r)
    \/ EvalBegin(r)
    \/ \E pred \in data.preds : EvalPos(r, pred)
    \/ EvalReport(r)
    \/ Finish(r)

ArgsWith(dist, trains, evals, everys, splits, tasks, ks, epochs, sizes) ==
    [distributed : dist, do_train : trains, do_eval : evals,
     eval_every_epoch : everys, eval_on : splits, task_known : tasks,
     gradient_accumulation_steps : ks, num_train_epochs : epochs,
     train_batch_size : sizes]

\* the arguments with train_batch_size equal to gradient_accumulation_steps:
\* one example per forward pass
ArgsOf(dist, trains, evals, everys, splits, tasks, ks, epochs) ==
    {a \in ArgsWith(dist, trains, evals, everys, splits, tasks, ks, epochs,
                    1..(MaxK + 1)) :
        a.train_batch_size = IF a.gradient_accumulation_steps < 1 THEN 1
                             ELSE a.gradient_accumulation_steps}

DataOf(nb, examples, preds, msl) ==
    [num_examples : nb, eval_examples : examples, preds : preds,
     max_seq_length : msl]

OneWord(name) == <<[label |-> name, pieces |-> 1]>>

\* the single-process program over every configuration, with kill and restart
Init ==
    InitWith(ArgsOf({FALSE}, BOOLEAN, BOOLEAN, BOOLEAN, {"dev", "test", "train"},
                    BOOLEAN, 0..(MaxK - 1), 0..MaxEpochs),
             DataOf(1..MaxBatches,
                    {<<OneWord(label_list[Len(label_list)])>>, <<OneWord(label_list[1])>>},
                    {{1}}, {MaxSeqLen}),
             {DirAbsent, DirEmpty, DirForeign})

Next ==
    \/ \E r \in Ranks : Step(r)
    \/ Kill
    \/ \E dt \in BOOLEAN, de \in BOOLEAN : Restart(dt, de)

Spec == Init /\ [][Next]_vars

\* a fresh single-process training run without evaluation, up to AccumBatches
\* batches per epoch
InitAccum ==
    InitWith(ArgsOf({FALSE}, {TRUE}, {FALSE}, {FALSE}, {"test"}, {TRUE},
                    1..MaxK, 1..MaxEpochs),
             DataOf(1..AccumBatches, {<<OneWord(label_list[1])>>}, {{1}}, {MaxSeqLen}),
             {DirAbsent, DirEmpty})

NextAccum ==
    \E r \in Ranks :
        \/ Validate(r)
        \/ LoadPretrained(r)
        \/ Setup(r)
        \/ EpochStart(r)
        \/ TrainBatch(r)
        \/ SaveCheckpoint(r)
        \/ EpochEnd(r)
        \/ SaveModel(r)
        \/ Finish(r)

SpecAccum == InitAccum /\ [][NextAccum]_vars

\* a distributed job of NumRanks workers on a fresh output directory
InitDist ==
    InitWith(ArgsOf({TRUE}, BOOLEAN, BOOLEAN, BOOLEAN, {"test"}, {TRUE},
                    1..2, {1}),
             DataOf({1, 2 * NumRanks}, {<<OneWord(label_list[Len(label_list)])>>},
                    {{1}}, {MaxSeqLen}),
             {DirAbsent})

NextDist ==
    \/ \E r \in Ranks : Step(r)
    \/ Kill

SpecDist == InitDist /\ [][NextDist]_vars

\* the output directory a finished one-batch training run leaves behind
DirTrained ==
    [exists |-> TRUE, files |-> {CKPT} \cup ModelFiles,
     ckpt |-> [epoch |-> 0, model_state_dict |-> 1, optimizer_state_dict |-> 1,
               loss |-> 1, scheduler |-> 1],
     saved_model |-> 1]

\* an evaluation-only run over every small evaluation split and prediction
InitEval ==
    InitWith(ArgsOf({FALSE}, {FALSE}, {TRUE}, {FALSE}, {"dev", "test"}, {TRUE},
                    {1}, {1}),
             DataOf({1}, SeqsUpTo(SeqsUpTo(Words(1), 1, MaxWords), 1, MaxExamples),
                    {0..NumLabels}, {MaxSeqLen - 1, MaxSeqLen}),
             {DirTrained})

NextEval ==
    \E r \in Ranks :
        \/ Validate(r)
        \/ LoadPretrained(r)
        \/ Setup(r)
        \/ ReloadTrained(r)
        \/ EvalBegin(r)
        \/ \E pred \in data.preds : EvalPos(r, pred)
        \/ EvalReport(r)

SpecEval == InitEval /\ [][NextEval]_vars

(* ------------------------------- claims -------------------------------- *)
\* C1: a training run killed after a completed batch, restarted in training
\* mode on the same output directory (which holds the checkpoint), is not
\* turned away by the output-directory check.
C1_RestartResumes ==
    \A r \in Procs :
        (hist.restarts > 0 /\ hist.kill.pc # "none" /\ args.do_train
            /\ CKPT \in fs.files)
        => proc[r].err # "dir_nonempty"

\* the (epoch, batch) steps of an uninterrupted run of E epochs of N batches
UninterruptedLog(E, N) ==
    [i \in 1..(E * N) |-> <<(i - 1) \div N, (i - 1) % N>>]

\* C2: a 2-epoch training killed once epoch 0 is complete and restarted in
\* training mode ends having processed the (epoch, batch) steps of the
\* uninterrupted run, with its model, optimizer and scheduler state.
C2_ResumeEqualsUninterrupted ==
    LET N == NBatches
        k == args.gradient_accumulation_steps
    IN  (/\ hist.restarts > 0
         /\ hist.kill.pc = "epoch" /\ hist.kill.epoch = 1
         /\ args.do_train /\ ~args.do_eval /\ args.num_train_epochs = 2
         /\ proc[0].pc \in {"done", "aborted", "crashed"})
        => /\ hist.log[0] = UninterruptedLog(2, N)
           /\ proc[0].model.updates = 2 * (N \div k)
           /\ proc[0].optimizer = 2 * (N \div k)
           /\ proc[0].scheduler = 2 * (N \div k)

InLoop(r) == proc[r].pc \in {"batch", "ckpt", "eval_in", "walk"}

\* C3: in the training loop the optimizer steps taken are floor(N/k) per
\* finished epoch plus floor(n/k) for the n batches done of the current one,
\* and scheduler steps, gradient clears and the global step equal them.
C3_StepsAreFloor ==
    \A r \in Procs :
        InLoop(r) =>
            LET k == args.gradient_accumulation_steps
            IN  /\ proc[r].n_opt = (proc[r].epoch - proc[r].start_epoch)
                                       * (NBatches \div k)
                                   + (proc[r].nb_tr_steps \div k)
                /\ proc[r].n_sched = proc[r].n_opt
                /\ proc[r].n_zero = proc[r].n_opt
                /\ proc[r].global_step = proc[r].n_opt

C3_Witness ==
    /\ proc[0].pc = "batch" /\ proc[0].epoch = 0
    /\ proc[0].nb_tr_steps = 10 /\ args.gradient_accumulation_steps = 3
    /\ proc[0].n_opt = 3 /\ proc[0].grads = 1

\* C4: in the single process, once a batch of the epoch is processed and
\* before the next forward pass, the checkpoint file holds the current epoch
\* and the model, optimizer and scheduler state as they are after that batch.
C4_CheckpointAfterEveryBatch ==
    \A r \in Procs :
        (/\ proc[r].pc \in {"batch", "eval_in", "walk"}
         /\ proc[r].nb_tr_steps > 0
         /\ proc[r].pc = "walk" => proc[r].eval_ctx = "loop")
        => /\ CKPT \in fs.files
           /\ fs.ckpt.epoch = proc[r].epoch
           /\ fs.ckpt.model_state_dict = proc[r].model.updates
           /\ fs.ckpt.optimizer_state_dict = proc[r].optimizer
           /\ fs.ckpt.scheduler = proc[r].scheduler

C4_Witness ==
    /\ proc[0].pc = "batch" /\ proc[0].step = 1 /\ proc[0].grads = 1
    /\ args.gradient_accumulation_steps = 2
    /\ CKPT \in fs.files /\ fs.ckpt.epoch = proc[0].epoch

ConfigErrors == {"accum", "task", "eval_on", "no_mode", "dir_nonempty"}

\* C5: a process that aborts on a configuration error has created no
\* checkpoint or output file and has processed no training batch.
C5_ConfigErrorsBeforeOutput ==
    \A r \in Procs :
        (proc[r].pc = "aborted" /\ proc[r].err \in ConfigErrors)
        => hist.created = {} /\ proc[r].n_batches = 0

EvalOnly == ~args.do_train /\ args.do_eval

\* C6 as stated: an evaluation-only run never reads the checkpoint file.
C6_NoCheckpointReadInEvalOnly ==
    \A r \in Procs : EvalOnly => ~proc[r].ckpt_read

\* C6 amended: an evaluation-only run that finds the checkpoint file reads it
\* at start-up and loads its optimizer and scheduler state, but the model it
\* evaluates is the one reloaded from the output directory's saved model.
C6_EvalOnlyReadsButReloads ==
    \A r \in Procs :
        (EvalOnly /\ proc[r].pc \in {"final", "walk", "done"})
        => /\ proc[r].model = [src |-> "output_dir", updates |-> fs.saved_model]
           /\ CKPT \in fs.files
                => /\ proc[r].ckpt_read
                   /\ proc[r].optimizer = fs.ckpt.optimizer_state_dict
                   /\ proc[r].scheduler = fs.ckpt.scheduler

C6_Witness ==
    /\ EvalOnly /\ proc[0].pc = "walk" /\ proc[0].ckpt_read
    /\ proc[0].model.src = "output_dir" /\ hist.restarts > 0

\* C7: only rank 0 ever writes the checkpoint file of the output directory.
C7_SingleCheckpointWriter == hist.writers \subseteq {0}

\* C8: no non-zero rank has loaded the pretrained tokenizer, config and model
\* before rank 0 has loaded them.
C8_RankZeroLoadsFirst ==
    \A r \in Procs \ {0} : proc[r].pretrained => proc[0].pretrained

RECURSIVE ExpectedTrue(_)
\* one entry per retained word of the first n examples, in word order
ExpectedTrue(n) ==
    IF n = 0 THEN <<>>
    ELSE ExpectedTrue(n - 1) \o
         [w \in 1..Retained(data.eval_examples[n], data.max_seq_length) |->
             [ex |-> n, pos |-> w, name |-> data.eval_examples[n][w].label]]

\* C9: the walk never fails on a label id, and with the first ei-1 examples
\* walked y_true holds exactly one entry per retained word of each of them.
C9_WalkStopsAtSentinel ==
    \A r \in Procs :
        /\ proc[r].err # "KeyError"
        /\ proc[r].pc = "walk" => proc[r].y_true = ExpectedTrue(proc[r].ei - 1)

\* C10: y_true and y_pred have the same length and their entries at one
\* position come from the same word of the same example.
C10_ResultsAligned ==
    \A r \in Procs :
        /\ Len(proc[r].y_true) = Len(proc[r].y_pred)
        /\ \A i \in 1..Len(proc[r].y_true) :
              i <= Len(proc[r].y_pred) =>
                /\ proc[r].y_true[i].ex = proc[r].y_pred[i].ex
                /\ proc[r].y_true[i].pos = proc[r].y_pred[i].pos

C10_Witness ==
    /\ proc[0].pc = "done" /\ Len(proc[0].y_true) = 2
    /\ proc[0].y_true[1].ex = 1 /\ proc[0].y_pred[2].ex = 2
    /\ proc[0].y_pred[2].name = "PAD"

(* ------------------------- encoder claims ------------------------------ *)
\* an evaluation-only run over single examples of up to MaxSeqLen words, each
\* word split into 1..MaxPieces pieces
InitEnc ==
    InitWith(ArgsOf({FALSE}, {FALSE}, {TRUE}, {FALSE}, {"dev", "test"}, {TRUE},
                    {1}, {1}),
             DataOf({1}, SeqsUpTo(SeqsUpTo(Words(MaxPieces), 1, MaxSeqLen), 1, 1),
                    {0..NumLabels}, {MaxSeqLen, MaxSeqLen + 1}),
             {DirTrained})

SpecEnc == InitEnc /\ [][NextEval]_vars

\* the rank has converted the evaluation examples to features
Encoded(r) == proc[r].eval_ctx # "none"

RECURSIVE DecodeRow(_, _)
\* the label names of the first n positions of a label_id row, read through
\* label_map, leaving out pad (0) and sentinel positions
DecodeRow(row, n) ==
    IF n = 0 THEN <<>>
    ELSE IF row[n] = 0 \/ row[n] = Sentinel THEN DecodeRow(row, n - 1)
    ELSE Append(DecodeRow(row, n - 1),
                IF row[n] \in DOMAIN label_map THEN label_map[row[n]] ELSE "PAD")

WordLabels(ex) == [w \in 1..Len(ex) |-> ex[w].label]

RoundTrip(ex, msl) ==
    DecodeRow(EncodeLabelId(ex, msl), msl) = WordLabels(ex)

Ones(row) == Cardinality({p \in DOMAIN row : row[p] = 1})

LabelPositions(row) ==
    Cardinality({p \in DOMAIN row : row[p] # 0 /\ row[p] # Sentinel})

KeptWords(ex, msl) == {Tokens(ex, msl)[t] : t \in DOMAIN Tokens(ex, msl)}

\* C14: the ones of valid_ids number the words left by the truncation and the
\* non-pad, non-sentinel positions of label_id; the words left are a prefix of
\* the example and each of them keeps all its pieces.
C14_ValidCountIsRetained ==
    \A r \in Procs : Encoded(r) =>
        \A i \in 1..Len(data.eval_examples) :
            LET ex == data.eval_examples[i]
                msl == data.max_seq_length
                kept == KeptWords(ex, msl)
            IN  /\ Ones(EncodeValidIds(ex, msl)) = Cardinality(kept)
                /\ LabelPositions(EncodeLabelId(ex, msl)) = Cardinality(kept)
                /\ kept = 1..Cardinality(kept)
                /\ \A w \in kept :
                      Cardinality({t \in DOMAIN Tokens(ex, msl) :
                                      Tokens(ex, msl)[t] = w}) = ex[w].pieces

C14_Witness ==
    /\ Encoded(0) /\ data.max_seq_length = MaxSeqLen
    /\ Len(data.eval_examples[1]) = 3
    /\ data.eval_examples[1][1].pieces = 2
    /\ Ones(EncodeValidIds(data.eval_examples[1], MaxSeqLen)) = 1

\* C15 as stated: an example of exactly max_seq_length - 1 words has
\* max_seq_length - 2 ones in valid_ids.
C15_BoundaryOnes ==
    \A r \in Procs : Encoded(r) =>
        \A i \in 1..Len(data.eval_examples) :
            Len(data.eval_examples[i]) = data.max_seq_length - 1
            => Ones(EncodeValidIds(data.eval_examples[i], data.max_seq_length))
                   = data.max_seq_length - 2

SinglePieces(ex) == \A w \in 1..Len(ex) : ex[w].pieces = 1

\* C15 amended: an example of exactly max_seq_length - 1 words, each a single
\* piece, has max_seq_length - 2 ones in valid_ids.
C15_BoundaryOnesSinglePiece ==
    \A r \in Procs : Encoded(r) =>
        \A i \in 1..Len(data.eval_examples) :
            (Len(data.eval_examples[i]) = data.max_seq_length - 1
                /\ SinglePieces(data.eval_examples[i]))
            => Ones(EncodeValidIds(data.eval_examples[i], data.max_seq_length))
                   = data.max_seq_length - 2

C15_Witness ==
    /\ Encoded(0) /\ data.max_seq_length = MaxSeqLen
    /\ Len(data.eval_examples[1]) = MaxSeqLen - 1
    /\ SinglePieces(data.eval_examples[1])
    /\ Ones(EncodeValidIds(data.eval_examples[1], MaxSeqLen)) = MaxSeqLen - 2

(* ------------------------ training-loop claims ------------------------- *)
\* C12: a training run that finds files in its output directory goes no
\* further than the start-up checks, and no training run writes a file that
\* was in the output directory when it started.
C12_NoOverwriteOfExisting ==
    /\ args.do_train => hist.created \cap hist.pre = {}
    /\ \A r \in Procs :
          (args.do_train /\ hist.pre # {})
          => /\ proc[r].pc \in {"start", "aborted", "killed"}
             /\ proc[r].n_batches = 0
             /\ hist.created = {}

C12_Witness ==
    /\ args.do_train /\ hist.pre = {"other.txt"} /\ hist.restarts = 0
    /\ proc[0].pc = "aborted" /\ proc[0].err = "dir_nonempty"
    /\ fs.files = {"other.txt"}

\* C13: a predicted id without an entry in label_map is decoded to PAD, and
\* the evaluation loop never fails, whatever the model predicts.
C13_EvalCompletesForAnyOutput ==
    \A r \in Procs :
        /\ Encoded(r) => proc[r].pc # "crashed"
        /\ \A i \in 1..Len(proc[r].temp_2) :
              proc[r].temp_2[i].id \notin DOMAIN label_map
              => proc[r].temp_2[i].name = "PAD"
        /\ \A i \in 1..Len(proc[r].y_pred) :
              proc[r].y_pred[i].id \notin DOMAIN label_map
              => proc[r].y_pred[i].name = "PAD"

\* C16: no forward pass of a training batch runs with the model in
\* evaluation mode.
C16_ForwardInTrainingMode == \A r \in Procs : ~proc[r].fwd_eval

AllSteps(E, N) == {<<e, b>> : e \in 0..(E - 1), b \in 0..(N - 1)}

\* C17: a training run killed after a batch that is not the last of its
\* epoch and restarted in training mode ends with every batch of every epoch
\* processed by the two runs together.
C17_ResumeCoversEveryBatch ==
    (/\ hist.restarts > 0
     /\ hist.kill.pc = "batch"
     /\ hist.kill.step > 0 /\ hist.kill.step < NBatches
     /\ args.do_train
     /\ proc[0].pc \in {"done", "aborted", "crashed"})
    => {hist.log[0][i] : i \in 1..Len(hist.log[0])}
           = AllSteps(args.num_train_epochs, NBatches)

\* the (epoch, batch) steps of the epochs s..E-1, N batches each, in order
ExpectedLog(s, E, N) ==
    [i \in 1..((IF E > s THEN E - s ELSE 0) * N) |->
        <<s + ((i - 1) \div N), (i - 1) % N>>]

AfterSetup == {"epoch", "batch", "ckpt", "eval_in", "walk", "reload", "final", "done"}

InitEvery ==
    InitWith(ArgsOf(BOOLEAN, {TRUE}, BOOLEAN, BOOLEAN, {"test"}, {TRUE},
                    1..2, 1..MaxEpochs),
             DataOf({1, 2, 2 * NumRanks},
                    {<<OneWord(label_list[Len(label_list)])>>, <<OneWord(label_list[1])>>},
                    {{1}}, {MaxSeqLen}),
             {DirAbsent})

NextEvery ==
    \E r \in Ranks :
        \/ Validate(r)
        \/ LoadPretrained(r)
        \/ Setup(r)
        \/ EpochStart(r)
        \/ TrainBatch(r)
        \/ SaveCheckpoint(r)
        \/ EpochEnd(r)
        \/ SaveModel(r)
        \/ EvalBegin(r)
        \/ \E pred \in data.preds : EvalPos(r, pred)
        \/ EvalReport(r)
        \/ Finish(r)

SpecEvery == InitEvery /\ [][NextEvery]_vars

C20_StepAppliesKBatches ==
    \A r \in Procs :
        proc[r].n_opt > 0 => proc[r].step_grads = args.gradient_accumulation_steps

\* fresh single-process training over every train batch size, accumulation
\* count and number of training examples
InitPlan ==
    InitWith(ArgsWith({FALSE}, {TRUE}, {FALSE}, {FALSE}, {"test"}, {TRUE},
                      1..MaxK, 1..MaxEpochs, 1..MaxTrainBatch),
             DataOf(1..MaxTrainExamples, {<<OneWord(label_list[1])>>}, {{1}},
                    {MaxSeqLen}),
             {DirAbsent, DirEmpty})

NextPlan ==
    \E r \in Ranks :
        \/ Validate(r)
        \/ LoadPretrained(r)
        \/ Setup(r)
        \/ EpochStart(r)
        \/ TrainBatch(r)
        \/ SaveCheckpoint(r)
        \/ EpochEnd(r)
        \/ SaveModel(r)
        \/ Finish(r)

SpecPlan == InitPlan /\ [][NextPlan]_vars

\* C21: a fresh single-process training that has run to its end has taken as
\* many scheduler (and optimizer) steps as the number of optimization steps
\* planned at line 237 and handed to the learning-rate schedule.
C21_PlannedEqualsActual ==
    \A r \in Procs :
        (proc[r].pc = "done" /\ args.do_train /\ ~args.distributed
            /\ hist.restarts = 0)
        => /\ proc[r].n_sched = proc[r].num_train_optimization_steps
           /\ proc[r].n_opt = proc[r].num_train_optimization_steps

\* C22: a process whose gradient_accumulation_steps >= 1 has passed the
\* configuration checks works with a batch size of at least 1 per forward
\* pass and never fails with a division by zero.
C22_BatchSizePositive ==
    \A r \in Procs :
        (args.gradient_accumulation_steps >= 1
            /\ proc[r].pc \notin {"off", "start", "aborted"})
        => /\ PerStepBatch >= 1
           /\ proc[r].err # "ZeroDivisionError"

\* C23: a training run restarted over a directory holding a checkpoint has,
\* once it is over, accumulated its first batch onto the running loss stored
\* in that checkpoint.
C23_ResumedLossInEffect ==
    (/\ hist.restarts > 0 /\ args.do_train /\ CKPT \in hist.pre
     /\ proc[0].pc \in {"done", "aborted", "crashed"})
    => proc[0].first_loss = hist.pre_loss

====
